---- MODULE Spec2Model ----
(***************************************************************************)
(* Telegraphy: typed RPC dispatch core (src/index.ts).                     *)
(*                                                                         *)
(* The model follows one call at a time through the client-side Remote     *)
(* Proxy (makeRemote), a Cable (an externally supplied mock, or the cable  *)
(* of test/schema.spec.ts that is wired straight to a Router), the Router  *)
(* (makeRouter) and the Route (makeRoute).  Every async function is cut    *)
(* at its awaits: the part that runs synchronously when it is invoked is   *)
(* one action, each resumption after an await is another.                  *)
(*                                                                         *)
(* Specifications:                                                         *)
(*   Spec         one call slot, every entry point of index.ts             *)
(*   SpecLive     Spec under the event loop's scheduling, with a cable and *)
(*                an implementation that settle                            *)
(*   SpecTwo      two call slots, router dispatches interleaved            *)
(*   SpecHttp     the HTTP cable of src/http.ts                            *)
(*   SpecBuild    transform(...).to(...) and feature(...)                  *)
(*   SpecMissions the missions scenario of test/schema.spec.ts, whose      *)
(*                implementation reads and changes ctx                     *)
(*   SpecCables   makeCable (index.ts) and httpCable (src/http.ts) side by *)
(*                side                                                     *)
(***************************************************************************)
EXTENDS Integers, Sequences, FiniteSets, TLC

\* Cap on the number of calls started in one behaviour.
MaxCalls == 3
\* Cap on the number of dispatches of the missions scenario.
MaxDispatches == 5

(***************************************************************************)
(* State.                                                                  *)
(*   calls       : per call slot, where the call stands and what it did    *)
(*   started     : calls started so far                                    *)
(*   accepted    : route.call invocations so far whose method is declared  *)
(*                 and whose argument passed the input schema              *)
(*   factoryRuns : implementation factory invocations so far               *)
(*   http        : the HTTP cable (src/http.ts): how its construction      *)
(*                 ended and where its current invocation stands           *)
(*   auth        : the auth object the HTTP cable was given                *)
(*   build       : a feature definition under construction (transform,     *)
(*                 .to, feature)                                           *)
(*   registry    : what was registered at construction: the router's       *)
(*                 routes and the features                                 *)
(*   heap        : the ctx objects of the missions scenario                *)
(*                 (test/schema.spec.ts:126-223), by identity: the         *)
(*                 missions array each one holds                           *)
(*   journal     : the dispatches of that scenario that have settled       *)
(*   mcall       : the dispatch of that scenario in flight                 *)
(*   cables      : a cable of makeCable (index.ts) and a cable of httpCable *)
(*                 (src/http.ts) side by side, given the same endpoint,    *)
(*                 auth object, calls and server responses                 *)
(***************************************************************************)
VARIABLES calls, started, accepted, factoryRuns, http, auth, build, registry,
          heap, journal, mcall, cables

vars == <<calls, started, accepted, factoryRuns, http, auth, build, registry,
          heap, journal, mcall, cables>>
missionVars == <<heap, journal, mcall>>
coreVars == <<calls, started, accepted, factoryRuns, registry>>
httpVars == <<http, auth, cables>>
\* What the steps of a call, and the steps of the HTTP cable, leave alone.
besideCore == <<http, auth, cables, build, missionVars>>
besideHttp ==
  <<calls, started, accepted, factoryRuns, build, registry, missionVars, cables>>

(***************************************************************************)
(* JavaScript values.  Every value is a record of one shape:               *)
(*   t   : "undefined" | "number" | "string" | "object" | "none"           *)
(*   p   : the atom of a primitive number or string ("" otherwise)         *)
(*   o   : the own fields of an object (field name -> atom)                *)
(*   txt : the characters of a string that was built as text, as tokens    *)
(* "none" marks a place of the model that holds no value yet.              *)
(***************************************************************************)
Fields == {"id", "name"}
FieldOrder == <<"id", "name">>
NumberAtoms == {"1"}
StringAtoms == {"'a'"}
FieldAtoms == NumberAtoms \cup StringAtoms

EmptyFields == [f \in {} |-> ""]

TypeOf(a) ==
  IF a \in NumberAtoms THEN "number"
  ELSE IF a \in StringAtoms THEN "string"
  ELSE "undefined"

Undefined == [t |-> "undefined", p |-> "", o |-> EmptyFields, txt |-> <<>>]
NoValue == [t |-> "none", p |-> "", o |-> EmptyFields, txt |-> <<>>]
Atom(a) == [t |-> TypeOf(a), p |-> a, o |-> EmptyFields, txt |-> <<>>]
Obj(f) == [t |-> "object", p |-> "", o |-> f, txt |-> <<>>]
Text(toks) == [t |-> "string", p |-> "", o |-> EmptyFields, txt |-> toks]

Objects == UNION {{Obj(f) : f \in [D -> FieldAtoms]} : D \in SUBSET Fields}
\* The values a caller, a mock cable or an implementation may produce.
Values == Objects \cup {Undefined, Atom("1")}

(***************************************************************************)
(* Errors: what a rejected promise carries.  msg is the message, word by   *)
(* word, so that "the message contains the name" can be stated.            *)
(***************************************************************************)
NoError == [kind |-> "none", msg |-> <<>>]
Err(kind, msg) == [kind |-> kind, msg |-> msg]
Contains(msg, word) == \E i \in 1..Len(msg) : msg[i] = word

\* The result of an operation that returns a value or throws.
Ok(v) == [ok |-> TRUE, val |-> v, err |-> NoError]
Throw(e) == [ok |-> FALSE, val |-> NoValue, err |-> e]

(***************************************************************************)
(* Schemas (sury).  An object schema lists its fields and their types and  *)
(* strips the fields it does not list; S.unknown accepts every value.      *)
(* NoSchema is what destructuring yields when the callable has no          *)
(* input / output property (undefined).                                    *)
(***************************************************************************)
EmptyTypes == [f \in {} |-> ""]
ObjectSchema(types) == [k |-> "object", f |-> types]
UnknownSchema == [k |-> "unknown", f |-> EmptyTypes]
NoSchema == [k |-> "undefined", f |-> EmptyTypes]

ValidationError == Err("Validation", <<"Failed", "parsing">>)
TypeError(what) == Err("TypeError", <<what>>)

\* S.parseOrThrow(value, schema)
parseOrThrow(v, s) ==
  IF s.k = "undefined" THEN Throw(TypeError("schema is undefined"))
  ELSE IF s.k = "unknown" THEN Ok(v)
  ELSE IF /\ v.t = "object"
          /\ \A f \in DOMAIN s.f : f \in DOMAIN v.o /\ TypeOf(v.o[f]) = s.f[f]
       THEN Ok(Obj([f \in DOMAIN s.f |-> v.o[f]]))
       ELSE Throw(ValidationError)

(***************************************************************************)
(* JSON.stringify and JSON.parse.  Text is a sequence of tokens.           *)
(***************************************************************************)
RECURSIVE Members(_, _)
Members(f, i) ==
  IF i > Len(FieldOrder) THEN <<>>
  ELSE LET k == FieldOrder[i]
           rest == Members(f, i + 1)
       IN IF k \notin DOMAIN f THEN rest
          ELSE IF rest = <<>> THEN <<k, ":", f[k]>>
          ELSE <<k, ":", f[k], ",">> \o rest

\* JSON.stringify(value): undefined has no JSON text, stringify returns undefined.
JSONstringify(v) ==
  IF v.t = "object" THEN Text(<<"{">> \o Members(v.o, 1) \o <<"}">>)
  ELSE IF v.t = "string" /\ v.txt # <<>> THEN Text(<<"\"">> \o v.txt \o <<"\"">>)
  ELSE IF v.t \in {"number", "string"} THEN Text(<<v.p>>)
  ELSE Undefined

SyntaxError == Err("SyntaxError", <<"Unexpected", "token">>)

RECURSIVE ParseMembers(_)
ParseMembers(toks) ==
  IF Len(toks) < 3 \/ toks[1] \in {"{", "}", ":", ","} \/ toks[2] # ":"
     \/ toks[3] \notin FieldAtoms
  THEN [ok |-> FALSE, f |-> EmptyFields]
  ELSE IF Len(toks) = 3 THEN [ok |-> TRUE, f |-> (toks[1] :> toks[3])]
  ELSE IF toks[4] # "," THEN [ok |-> FALSE, f |-> EmptyFields]
  ELSE LET rest == ParseMembers(SubSeq(toks, 5, Len(toks)))
       IN [ok |-> rest.ok, f |-> rest.f @@ (toks[1] :> toks[3])]

\* JSON.parse(text as string): anything that is not JSON text is a SyntaxError.
JSONparse(v) ==
  LET toks == v.txt
      n == Len(toks)
  IN IF v.t # "string" \/ n = 0 THEN Throw(SyntaxError)
     ELSE IF n = 1 THEN
       IF toks[1] \in FieldAtoms THEN Ok(Atom(toks[1])) ELSE Throw(SyntaxError)
     ELSE IF toks[1] # "{" \/ toks[n] # "}" THEN Throw(SyntaxError)
     ELSE IF n = 2 THEN Ok(Obj(EmptyFields))
     ELSE LET m == ParseMembers(SubSeq(toks, 2, n - 1))
          IN IF m.ok THEN Ok(Obj(m.f)) ELSE Throw(SyntaxError)

(***************************************************************************)
(* Settled promises.                                                       *)
(***************************************************************************)
NoResult == [st |-> "none", val |-> NoValue, err |-> NoError]
Resolved(v) == [st |-> "resolved", val |-> v, err |-> NoError]
Rejected(e) == [st |-> "rejected", val |-> NoValue, err |-> e]
\* The promise of an async function whose body returned r.val or threw r.err.
Settled(r) == IF r.ok THEN Resolved(r.val) ELSE Rejected(r.err)

(***************************************************************************)
(* Features (index.ts: transform, feature) and the ones the model uses.    *)
(***************************************************************************)
transform(input, output) == [input |-> input, output |-> output]

\* feature(name, schema) that keeps the methods whose input and output are
\* schemas and drops the others.
featureChecked(name, schema) ==
  [name |-> name,
   schema |-> [m \in {k \in DOMAIN schema : /\ schema[k].input.k # "undefined"
                                            /\ schema[k].output.k # "undefined"}
                 |-> schema[m]]]

feature(name, schema) == [name |-> name, schema |-> schema]

\* The two steps of the builder: transform(input) returns an object that
\* holds input and offers `to`; to(output) returns {input, output}.
Builder(input) == [input |-> input]
to(builder, output) == [input |-> builder.input, output |-> output]

IdSchema == ObjectSchema([id |-> "number"])
ProfileSchema == ObjectSchema([id |-> "number", name |-> "string"])
NameSchema == ObjectSchema([name |-> "string"])

userFeature ==
  feature("user", [getProfile |-> transform(IdSchema, ProfileSchema),
                   notify |-> transform(NameSchema, UnknownSchema)])
crewFeature ==
  feature("crew", [getOfficer |-> transform(IdSchema, NameSchema)])

FeatureSet == {userFeature, crewFeature}
FeatureNamed(n) == CHOOSE f \in FeatureSet : f.name = n

\* Property names every plain object inherits from Object.prototype.
ObjectPrototype == {"toString"}

\* obj[key] on a plain object with own keys `own`: an own property, an
\* inherited one (truthy, a function), or undefined.
Has(own, key) ==
  IF key \in own THEN "own"
  ELSE IF key \in ObjectPrototype THEN "inherited"
  ELSE "absent"

\* schema[method] followed by `const {input, output} = callable`.
Callable(schema, method) ==
  IF Has(DOMAIN schema, method) = "own" THEN schema[method]
  ELSE transform(NoSchema, NoSchema)

\* Names callers may use for a method or a feature: the declared ones, one
\* that exists nowhere, and one that Object.prototype knows.
MethodNames == {"getProfile", "notify", "getOfficer", "nonExistent", "toString"}
FeatureNames == {"user", "crew", "nonExistent", "toString"}
Ctxs == {"ctx1", "ctx2"}

(***************************************************************************)
(* makeRemote (index.ts:80-97).                                            *)
(***************************************************************************)
\* The proxy's get trap (index.ts:86-94): what reading remote[method]
\* yields.  The trap returns a new async function for every property name,
\* whether schema[method] exists or not.
RemoteGet(feat, method) == "function"

\* RemoteInvoke without the input validation: the cable gets the argument.
RemoteInvokeUnchecked(feat, method, arg) ==
  IF Has(DOMAIN feat.schema, method) = "absent" THEN
    [err |-> TypeError("Cannot destructure property 'input'"), cable |-> <<>>]
  ELSE [err |-> NoError,
        cable |-> <<[feature |-> feat.name, method |-> method, input |-> arg]>>]

\* RemoteInvoke that validates the argument and then sends it as it came.
RemoteInvokeRaw(feat, method, arg) ==
  LET parsedInput == parseOrThrow(arg, Callable(feat.schema, method).input)
  IN IF Has(DOMAIN feat.schema, method) = "absent" THEN
       [err |-> TypeError("Cannot destructure property 'input'"), cable |-> <<>>]
     ELSE IF ~parsedInput.ok THEN [err |-> parsedInput.err, cable |-> <<>>]
     ELSE [err |-> NoError,
           cable |-> <<[feature |-> feat.name, method |-> method, input |-> arg]>>]

\* The async function the proxy's get trap returns, up to its await: either
\* it throws, or it invokes the cable.  `cable` lists the cable invocations.
RemoteInvoke(feat, method, arg) ==
  LET has == Has(DOMAIN feat.schema, method)
      callable == Callable(feat.schema, method)
      parsedInput == parseOrThrow(arg, callable.input)
  IN IF has = "absent" THEN
       [err |-> TypeError("Cannot destructure property 'input'"), cable |-> <<>>]
     ELSE IF ~parsedInput.ok THEN [err |-> parsedInput.err, cable |-> <<>>]
     ELSE [err |-> NoError,
           cable |-> <<[feature |-> feat.name, method |-> method,
                        input |-> parsedInput.val]>>]

\* RemoteReturn that catches the cable's failure and returns undefined.
RemoteReturnSwallow(feat, method, result) ==
  IF result.st = "rejected" THEN Resolved(Undefined)
  ELSE Settled(parseOrThrow(result.val, Callable(feat.schema, method).output))

\* RemoteReturn that checks the result and returns it as the cable gave it.
RemoteReturnRaw(feat, method, result) ==
  IF result.st = "rejected" THEN result
  ELSE IF parseOrThrow(result.val, Callable(feat.schema, method).output).ok
       THEN result
       ELSE Rejected(ValidationError)

\* ... and after the await: `return S.parseOrThrow(result, output)`.
RemoteReturn(feat, method, result) ==
  IF result.st = "rejected" THEN result
  ELSE Settled(parseOrThrow(result.val, Callable(feat.schema, method).output))

(***************************************************************************)
(* makeRoute (index.ts:104-124).                                           *)
(***************************************************************************)
MethodNotFound(method) == Err("NotFound", <<"Method", method, "not", "found">>)
ImplNotFound(name, method) ==
  Err("NotFound", <<"Method", "implementation", "for", name, ".", method,
                    "not", "found">>)

\* implFn that is handed a ctx the route kept, not the caller's.
implFnKept(ctx, implKeys) == [ctx |-> "ctx1", impl |-> implKeys]

\* One invocation of the implementation factory: the ctx it is given and the
\* own keys of the object it returns.
implFn(ctx, implKeys) == [ctx |-> ctx, impl |-> implKeys]

\* RouteInvoke that builds the implementation before it validates the input.
RouteInvokeEager(feat, implKeys, ctx, method, arg) ==
  LET callable == Callable(feat.schema, method)
      parsedInput == parseOrThrow(arg, callable.input)
  IN IF Has(DOMAIN feat.schema, method) = "absent" THEN
       [err |-> MethodNotFound(method), factory |-> <<>>, fn |-> <<>>]
     ELSE IF ~parsedInput.ok THEN
       [err |-> parsedInput.err, factory |-> <<implFn(ctx, implKeys)>>, fn |-> <<>>]
     ELSE IF Has(implKeys, method) = "absent" THEN
       [err |-> ImplNotFound(feat.name, method), factory |-> <<implFn(ctx, implKeys)>>,
        fn |-> <<>>]
     ELSE [err |-> NoError, factory |-> <<implFn(ctx, implKeys)>>,
           fn |-> <<[fn |-> Has(implKeys, method), input |-> parsedInput.val]>>]

\* RouteInvoke that keeps the implementation of the first call and runs the
\* factory no more after it.
RouteInvokeCached(feat, implKeys, ctx, method, arg) ==
  LET callable == Callable(feat.schema, method)
      parsedInput == parseOrThrow(arg, callable.input)
      made == IF factoryRuns = 0 THEN <<implFn(ctx, implKeys)>> ELSE <<>>
  IN IF Has(DOMAIN feat.schema, method) = "absent" THEN
       [err |-> MethodNotFound(method), factory |-> <<>>, fn |-> <<>>]
     ELSE IF ~parsedInput.ok THEN
       [err |-> parsedInput.err, factory |-> <<>>, fn |-> <<>>]
     ELSE IF Has(implKeys, method) = "absent" THEN
       [err |-> ImplNotFound(feat.name, method), factory |-> made, fn |-> <<>>]
     ELSE [err |-> NoError, factory |-> made,
           fn |-> <<[fn |-> Has(implKeys, method), input |-> parsedInput.val]>>]

\* RouteInvoke without the `if (!fn)` check: calling undefined throws.
RouteInvokeNoImplCheck(feat, implKeys, ctx, method, arg) ==
  LET callable == Callable(feat.schema, method)
      parsedInput == parseOrThrow(arg, callable.input)
  IN IF Has(DOMAIN feat.schema, method) = "absent" THEN
       [err |-> MethodNotFound(method), factory |-> <<>>, fn |-> <<>>]
     ELSE IF ~parsedInput.ok THEN
       [err |-> parsedInput.err, factory |-> <<>>, fn |-> <<>>]
     ELSE IF Has(implKeys, method) = "absent" THEN
       [err |-> TypeError("fn is not a function"),
        factory |-> <<implFn(ctx, implKeys)>>, fn |-> <<>>]
     ELSE [err |-> NoError, factory |-> <<implFn(ctx, implKeys)>>,
           fn |-> <<[fn |-> Has(implKeys, method), input |-> parsedInput.val]>>]

\* RouteInvoke that hands the implementation the argument as it came.
RouteInvokeRawArg(feat, implKeys, ctx, method, arg) ==
  LET callable == Callable(feat.schema, method)
      parsedInput == parseOrThrow(arg, callable.input)
  IN IF Has(DOMAIN feat.schema, method) = "absent" THEN
       [err |-> MethodNotFound(method), factory |-> <<>>, fn |-> <<>>]
     ELSE IF ~parsedInput.ok THEN
       [err |-> parsedInput.err, factory |-> <<>>, fn |-> <<>>]
     ELSE IF Has(implKeys, method) = "absent" THEN
       [err |-> ImplNotFound(feat.name, method), factory |-> <<implFn(ctx, implKeys)>>,
        fn |-> <<>>]
     ELSE [err |-> NoError, factory |-> <<implFn(ctx, implKeys)>>,
           fn |-> <<[fn |-> Has(implKeys, method), input |-> arg]>>]

\* RouteInvoke that reads ctx from a module-level variable which the call
\* in flight in the first busy slot has set.
RouteInvokeSharedCtx(feat, implKeys, ctx, method, arg) ==
  LET callable == Callable(feat.schema, method)
      parsedInput == parseOrThrow(arg, callable.input)
      busy == {c \in DOMAIN calls : calls[c].pc # "idle"}
      current == IF busy = {} THEN ctx
                 ELSE calls[CHOOSE c \in busy : \A d \in busy : c <= d].ctx
  IN IF Has(DOMAIN feat.schema, method) = "absent" THEN
       [err |-> MethodNotFound(method), factory |-> <<>>, fn |-> <<>>]
     ELSE IF ~parsedInput.ok THEN
       [err |-> parsedInput.err, factory |-> <<>>, fn |-> <<>>]
     ELSE IF Has(implKeys, method) = "absent" THEN
       [err |-> ImplNotFound(feat.name, method),
        factory |-> <<implFn(current, implKeys)>>, fn |-> <<>>]
     ELSE [err |-> NoError, factory |-> <<implFn(current, implKeys)>>,
           fn |-> <<[fn |-> Has(implKeys, method), input |-> parsedInput.val]>>]

\* route.call up to its await.  factory lists the invocations of the
\* factory, fn those of impl[method]: own or inherited, and its input.
RouteInvoke(feat, implKeys, ctx, method, arg) ==
  LET callable == Callable(feat.schema, method)
      parsedInput == parseOrThrow(arg, callable.input)
  IN IF Has(DOMAIN feat.schema, method) = "absent" THEN
       [err |-> MethodNotFound(method), factory |-> <<>>, fn |-> <<>>]
     ELSE IF ~parsedInput.ok THEN
       [err |-> parsedInput.err, factory |-> <<>>, fn |-> <<>>]
     ELSE IF Has(implKeys, method) = "absent" THEN
       [err |-> ImplNotFound(feat.name, method), factory |-> <<implFn(ctx, implKeys)>>,
        fn |-> <<>>]
     ELSE [err |-> NoError, factory |-> <<implFn(ctx, implKeys)>>,
           fn |-> <<[fn |-> Has(implKeys, method), input |-> parsedInput.val]>>]

\* RouteReturn that serializes the implementation's result as it came.
RouteReturnUnchecked(feat, method, result) ==
  IF result.st = "rejected" THEN
    [result |-> result, validations |-> 0, checked |-> NoValue, serialized |-> 0]
  ELSE [result |-> Resolved(JSONstringify(result.val)), validations |-> 0,
        checked |-> result.val, serialized |-> 1]

\* RouteReturn that catches the implementation's failure and throws its own.
RouteReturnWrapped(feat, method, result) ==
  LET parsed == parseOrThrow(result.val, Callable(feat.schema, method).output)
  IN IF result.st = "rejected" THEN
       [result |-> Rejected(Err("Internal", <<"Call", "failed">>)), validations |-> 0,
        checked |-> NoValue, serialized |-> 0]
     ELSE IF ~parsed.ok THEN
       [result |-> Rejected(parsed.err), validations |-> 1, checked |-> NoValue,
        serialized |-> 0]
     ELSE [result |-> Resolved(JSONstringify(parsed.val)), validations |-> 1,
           checked |-> parsed.val, serialized |-> 1]

\* ... and after the await:
\* `return JSON.stringify(S.parseOrThrow(result, output))`.
\* checked: the value the output validation produced; text: what stringify
\* returned.
RouteReturn(feat, method, result) ==
  LET parsed == parseOrThrow(result.val, Callable(feat.schema, method).output)
  IN IF result.st = "rejected" THEN
       [result |-> result, validations |-> 0, checked |-> NoValue, serialized |-> 0]
     ELSE IF ~parsed.ok THEN
       [result |-> Rejected(parsed.err), validations |-> 1, checked |-> NoValue,
        serialized |-> 0]
     ELSE [result |-> Resolved(JSONstringify(parsed.val)), validations |-> 1,
           checked |-> parsed.val, serialized |-> 1]

(***************************************************************************)
(* makeRouter (index.ts:126-135) and cableSchema (index.ts:72-76).         *)
(***************************************************************************)
\* A payload: feature and method are strings or not, input is any value.
EnvString(s) == [str |-> TRUE, s |-> s]
NotAString == [str |-> FALSE, s |-> ""]
NoPayload == [feature |-> NotAString, method |-> NotAString, input |-> NoValue]
makePayload(f, m, input) ==
  [feature |-> EnvString(f), method |-> EnvString(m), input |-> input]

\* S.parseOrThrow(payload, cableSchema)
cableSchema(payload) == payload.feature.str /\ payload.method.str

FeatureNotFound(name) == Err("NotFound", <<"Feature", name, "not", "found">>)

\* The routes the router is built over: feature name -> Route.
makeRoute(feat) == [feature |-> feat]
Routes == [user |-> makeRoute(userFeature), crew |-> makeRoute(crewFeature)]

\* RouterInvoke without the envelope validation.
RouterInvokeUnvalidated(routes, payload) ==
  LET has == Has(DOMAIN routes, payload.feature.s)
      call == [route |-> payload.feature.s, method |-> payload.method.s,
               arg |-> payload.input]
  IN IF has = "absent" THEN
       [tag |-> "throw", err |-> FeatureNotFound(payload.feature.s), call |-> <<>>]
     ELSE IF has = "inherited" THEN
       [tag |-> "inherited", err |-> NoError, call |-> <<>>]
     ELSE [tag |-> "route", err |-> NoError, call |-> <<call>>]

\* RouterInvoke that dispatches every registered feature to the first route.
RouterInvokeFirstRoute(routes, payload) ==
  LET has == Has(DOMAIN routes, payload.feature.s)
      call == [route |-> CHOOSE n \in DOMAIN routes : TRUE,
               method |-> payload.method.s, arg |-> payload.input]
  IN IF ~cableSchema(payload) THEN
       [tag |-> "throw", err |-> ValidationError, call |-> <<>>]
     ELSE IF has = "absent" THEN
       [tag |-> "throw", err |-> FeatureNotFound(payload.feature.s), call |-> <<>>]
     ELSE IF has = "inherited" THEN
       [tag |-> "inherited", err |-> NoError, call |-> <<>>]
     ELSE [tag |-> "route", err |-> NoError, call |-> <<call>>]

\* RouterInvoke that looks the feature up before it validates the envelope.
RouterInvokeLookupFirst(routes, payload) ==
  LET has == Has(DOMAIN routes, payload.feature.s)
      call == [route |-> payload.feature.s, method |-> payload.method.s,
               arg |-> payload.input]
  IN IF has = "absent" THEN
       [tag |-> "throw", err |-> FeatureNotFound(payload.feature.s), call |-> <<>>]
     ELSE IF ~cableSchema(payload) THEN
       [tag |-> "throw", err |-> ValidationError, call |-> <<>>]
     ELSE IF has = "inherited" THEN
       [tag |-> "inherited", err |-> NoError, call |-> <<>>]
     ELSE [tag |-> "route", err |-> NoError, call |-> <<call>>]

\* The registration state: the router's mapping and the features.
Registration ==
  [routes |-> Routes, features |-> [user |-> userFeature, crew |-> crewFeature]]

\* RegistryAfter that takes a route out of the mapping once its call failed.
RegistryAfterBreaker(reg, s) ==
  IF s.routeOut.st = "rejected" /\ s.routeLog # <<>>
  THEN [reg EXCEPT !.routes =
          [n \in DOMAIN reg.routes \ {s.routeLog[Len(s.routeLog)].route}
             |-> reg.routes[n]]]
  ELSE reg

\* The registration state once a step of a call has left the slot as s:
\* index.ts:80-135 reads routes, feature.name and feature.schema and
\* assigns to none of them.
RegistryAfter(reg, s) == reg

\* The router up to `route.call(ctx, method, input)`: call lists the
\* route.call invocations (the route, the method, the argument).  An inherited
\* routes[feature] is a function: its .call is Function.prototype.call,
\* which runs it (Object.prototype.toString) on ctx.
RouterInvoke(routes, payload) ==
  LET has == Has(DOMAIN routes, payload.feature.s)
      call == [route |-> payload.feature.s, method |-> payload.method.s,
               arg |-> payload.input]
  IN IF ~cableSchema(payload) THEN
       [tag |-> "throw", err |-> ValidationError, call |-> <<>>]
     ELSE IF has = "absent" THEN
       [tag |-> "throw", err |-> FeatureNotFound(payload.feature.s), call |-> <<>>]
     ELSE IF has = "inherited" THEN
       [tag |-> "inherited", err |-> NoError, call |-> <<>>]
     ELSE [tag |-> "route", err |-> NoError, call |-> <<call>>]

ObjectToString == Text(<<"[object Object]">>)

\* RouterReturn that hands back the parsed response instead of the text.
\* A router whose promise stays pending when the route has settled.
RouterReturnPending(result) == NoResult

RouterReturnParsed(result) ==
  IF result.st = "rejected" THEN result ELSE Settled(JSONparse(result.val))

\* `return await route.call(...)`
RouterReturn(result) == result

(***************************************************************************)
(* The cable of test/schema.spec.ts:186-190, wired straight to the router. *)
(***************************************************************************)
\* `return JSON.parse(result as string)`
WiredCableReturn(result) ==
  IF result.st = "rejected" THEN result ELSE Settled(JSONparse(result.val))

(***************************************************************************)
(* The missions feature and its implementation                             *)
(* (test/schema.spec.ts:126-175).  A mission is {id, title, completed};    *)
(* ctx.missions is an array of missions.                                   *)
(***************************************************************************)
Mission(id, title, completed) == [id |-> id, title |-> title, completed |-> completed]
\* What an implementation method returns: one mission, or an array of them.
ObjectValue(m) == [k |-> "object", v |-> <<m>>]
ArrayValue(ms) == [k |-> "array", v |-> ms]

MissionTypes == [id |-> "number", title |-> "string", completed |-> "boolean"]
missionSchema == ObjectSchema(MissionTypes)
ArraySchema(item) == [k |-> "array", f |-> item.f]

missionsFeature ==
  feature("missions",
          [create |-> transform(ObjectSchema([title |-> "string"]), missionSchema),
           list |-> transform(ObjectSchema(EmptyTypes), ArraySchema(missionSchema)),
           complete |-> transform(ObjectSchema([id |-> "number"]), missionSchema),
           get |-> transform(ObjectSchema([id |-> "number"]), missionSchema)])
MissionRoutes == [missions |-> makeRoute(missionsFeature)]
MissionMethods == DOMAIN missionsFeature.schema

\* The number a number atom denotes.
AtomNumber(a) == IF a = "1" THEN 1 ELSE 0
MissionNotFound == Err("Business", <<"Mission", "not", "found">>)

\* missionsImpl(ctx)[method](input) on ctx.missions = store: the array
\* afterwards and the promise the method returns.
missionsImpl(method, store, input) ==
  LET found == {i \in 1..Len(store) : store[i].id = AtomNumber(input.o.id)}
      at == CHOOSE i \in found : \A j \in found : i <= j
      mission == Mission(Len(store) + 1, input.o.title, FALSE)
      completed == [store EXCEPT ![at].completed = TRUE]
  IN IF method = "create" THEN
       [store |-> Append(store, mission), result |-> Resolved(ObjectValue(mission))]
     ELSE IF method = "list" THEN
       [store |-> store, result |-> Resolved(ArrayValue(store))]
     ELSE IF found = {} THEN [store |-> store, result |-> Rejected(MissionNotFound)]
     ELSE IF method = "complete" THEN
       [store |-> completed, result |-> Resolved(ObjectValue(completed[at]))]
     ELSE [store |-> store, result |-> Resolved(ObjectValue(store[at]))]

\* JSON.stringify of a mission and of an array of missions.
Digits == <<"1", "2", "3", "4", "5", "6", "7", "8", "9">>
MissionText(m) ==
  <<"{", "id", ":", Digits[m.id], ",", "title", ":", m.title, ",", "completed", ":",
    IF m.completed THEN "true" ELSE "false", "}">>
RECURSIVE MissionsText(_)
MissionsText(ms) ==
  IF ms = <<>> THEN <<>>
  ELSE IF Len(ms) = 1 THEN MissionText(ms[1])
  ELSE MissionText(ms[1]) \o <<",">> \o MissionsText(Tail(ms))
missionStringify(value) ==
  IF value.k = "array" THEN Text(<<"[">> \o MissionsText(value.v) \o <<"]">>)
  ELSE Text(MissionText(value.v[1]))

\* route.call after its await, on a missions method:
\* `return JSON.stringify(S.parseOrThrow(result, output))`.
MissionReturn(method, result) ==
  LET output == missionsFeature.schema[method].output
      valid == /\ result.val.k = output.k
               /\ \A i \in 1..Len(result.val.v) :
                    /\ result.val.v[i].id \in Nat
                    /\ TypeOf(result.val.v[i].title) = output.f.title
                    /\ result.val.v[i].completed \in BOOLEAN
  IN IF result.st = "rejected" THEN result
     ELSE IF ~valid THEN Rejected(ValidationError)
     ELSE Resolved(missionStringify(result.val))

\* No dispatch of the missions scenario in flight.
NoDispatch ==
  [pc |-> "idle", ctx |-> "", method |-> "", input |-> NoValue, pending |-> NoResult]

(***************************************************************************)
(* httpCable (src/http.ts).                                                *)
(***************************************************************************)
\* An endpoint is undefined or a string; a token is null or a string.
\* Both are falsy when absent or empty.
NoEndpoint == [def |-> FALSE, url |-> ""]
Endpoint(url) == [def |-> TRUE, url |-> url]
Null == [null |-> TRUE, s |-> ""]
Token(s) == [null |-> FALSE, s |-> s]

Endpoints == {NoEndpoint, Endpoint(""), Endpoint("https://api.example.com/rpc")}
Tokens == {Null, Token(""), Token("test-token"), Token("test-token-123")}

EndpointNotSet == Err("Error", <<"Backend", "endpoint", "is", "not", "set">>)
NotAuthenticated ==
  Err("Error", <<"User", "not", "authenticated,", "cannot", "call", "cable",
                 "without", "a", "token">>)
CallFailed(feat, method, statusText) ==
  Err("Error", <<"Failed", "to", "call", feat, ".", method, ":", statusText>>)

\* httpCable(endpoint, auth) without the endpoint check.
httpCableUnchecked(endpoint) == NoError

\* httpCable(endpoint, auth): the error it throws, NoError when it returns
\* the cable.
httpCable(endpoint) ==
  IF ~endpoint.def \/ endpoint.url = "" THEN EndpointNotSet ELSE NoError

\* JSON.stringify({feature, method, input}): a member whose value is
\* undefined is left out.
stringifyEnvelope(feat, method, input) ==
  LET text == JSONstringify(input)
  IN Text(<<"{", "feature", ":", feat, ",", "method", ":", method>>
          \o (IF text.t = "string" THEN <<",", "input", ":">> \o text.txt ELSE <<>>)
          \o <<"}">>)

\* headers.set("Content-Type", ...); headers.set("Authorization", ...)
Headers(token) ==
  [ContentType |-> "application/json",
   Authorization |-> <<"Bearer", IF token.null THEN "null" ELSE token.s>>]

Request(endpoint, verb, token, feat, method, input) ==
  [url |-> endpoint.url, method |-> verb, headers |-> Headers(token),
   body |-> stringifyEnvelope(feat, method, input)]

\* HttpInvoke without the token check.
HttpInvokeUnauthenticated(endpoint, token, feat, method, input) ==
  [err |-> NoError, fetch |-> <<Request(endpoint, "POST", token, feat, method, input)>>]

\* HttpInvoke that sends the envelope with the default verb.
HttpInvokeGet(endpoint, token, feat, method, input) ==
  IF token.null \/ token.s = "" THEN [err |-> NotAuthenticated, fetch |-> <<>>]
  ELSE [err |-> NoError,
        fetch |-> <<Request(endpoint, "GET", token, feat, method, input)>>]

\* HttpInvoke that decides on the token the cable was constructed with.
HttpInvokeCaptured(endpoint, token, feat, method, input) ==
  IF ~http.builtWithToken THEN [err |-> NotAuthenticated, fetch |-> <<>>]
  ELSE [err |-> NoError,
        fetch |-> <<Request(endpoint, "POST", token, feat, method, input)>>]

\* The cable up to `await fetch(...)`: fetch lists the requests made.
HttpInvoke(endpoint, token, feat, method, input) ==
  IF token.null \/ token.s = "" THEN [err |-> NotAuthenticated, fetch |-> <<>>]
  ELSE [err |-> NoError,
        fetch |-> <<Request(endpoint, "POST", token, feat, method, input)>>]

\* A response: its ok flag, its status text and its body.
Response(ok, statusText, body) == [ok |-> ok, statusText |-> statusText, body |-> body]
NoResponse == Response(FALSE, "", NoValue)
NoFetch == [st |-> "none", resp |-> NoResponse, err |-> NoError]
Fetched(resp) == [st |-> "resolved", resp |-> resp, err |-> NoError]
FetchFailed(e) == [st |-> "rejected", resp |-> NoResponse, err |-> e]

\* HttpResponse that reads the body whatever the status.
HttpResponseAnyStatus(feat, method, fetched) ==
  IF fetched.st = "rejected" THEN [result |-> Rejected(fetched.err), json |-> 0]
  ELSE [result |-> NoResult, json |-> 1]

\* The cable after `await fetch(...)`: it throws, or calls response.json()
\* (json counts the calls) and awaits it.
HttpResponse(feat, method, fetched) ==
  IF fetched.st = "rejected" THEN [result |-> Rejected(fetched.err), json |-> 0]
  ELSE IF ~fetched.resp.ok THEN
    [result |-> Rejected(CallFailed(feat, method, fetched.resp.statusText)), json |-> 0]
  ELSE [result |-> NoResult, json |-> 1]

\* response.json(): the body parsed as JSON.
ResponseJson(resp) == Settled(JSONparse(resp.body))

\* The HTTP cable: not constructed.  builtWithToken: auth.token was set
\* when the cable was constructed; requested: an invocation of this cable
\* has called fetch.
NoCall == [feature |-> "", method |-> "", input |-> NoValue, token |-> Null]
NoCable ==
  [cable |-> "none", endpoint |-> NoEndpoint, error |-> NoError, pc |-> "idle",
   call |-> NoCall, fetchLog |-> <<>>, fetched |-> NoFetch, jsonReads |-> 0,
   outcome |-> NoResult, builtWithToken |-> FALSE, requested |-> FALSE]

\* No definition under construction.
NoBuild ==
  [pc |-> "none", input |-> NoSchema, output |-> NoSchema,
   builder |-> Builder(NoSchema), callable |-> transform(NoSchema, NoSchema),
   name |-> "", schema |-> [m \in {} |-> transform(NoSchema, NoSchema)],
   feature |-> feature("", [m \in {} |-> transform(NoSchema, NoSchema)])]

(***************************************************************************)
(* makeCable (index.ts:14-36).                                             *)
(***************************************************************************)
\* makeCable(endpoint, auth): the error it throws, NoError when it returns
\* the cable.
makeCable(endpoint) ==
  IF ~endpoint.def \/ endpoint.url = ""
  THEN Err("Error", <<"Backend", "endpoint", "is", "not", "set">>)
  ELSE NoError

\* makeCable's cable that sends no Content-Type header.
makeCableInvokeBare(endpoint, token, feat, method, input) ==
  IF token.null \/ token.s = "" THEN
    [err |-> Err("Error", <<"User", "not", "authenticated,", "cannot", "call",
                            "cable", "without", "a", "token">>),
     fetch |-> <<>>]
  ELSE [err |-> NoError,
        fetch |-> <<[url |-> endpoint.url, method |-> "POST",
                     headers |-> [ContentType |-> "",
                                  Authorization |-> <<"Bearer", token.s>>],
                     body |-> stringifyEnvelope(feat, method, input)]>>]

\* The cable up to `await fetch(...)` (index.ts:18-30): the token check, the
\* two headers, payload = {feature, method, input} and the POST of its
\* JSON text.
makeCableInvoke(endpoint, token, feat, method, input) ==
  LET payload == [feature |-> feat, method |-> method, input |-> input]
  IN IF token.null \/ token.s = "" THEN
       [err |-> Err("Error", <<"User", "not", "authenticated,", "cannot", "call",
                               "cable", "without", "a", "token">>),
        fetch |-> <<>>]
     ELSE [err |-> NoError,
           fetch |-> <<[url |-> endpoint.url, method |-> "POST",
                        headers |-> [ContentType |-> "application/json",
                                     Authorization |-> <<"Bearer", token.s>>],
                        body |-> stringifyEnvelope(payload.feature, payload.method,
                                                   payload.input)]>>]

\* The cable after `await fetch(...)` (index.ts:31-34).
makeCableResponse(feat, method, fetched) ==
  IF fetched.st = "rejected" THEN [result |-> Rejected(fetched.err), json |-> 0]
  ELSE IF ~fetched.resp.ok THEN
    [result |-> Rejected(Err("Error", <<"Failed", "to", "call", feat, ".", method, ":",
                                        fetched.resp.statusText>>)),
     json |-> 0]
  ELSE [result |-> NoResult, json |-> 1]

\* One of the two cables: how its construction ended and where its
\* invocation stands.
NoSide ==
  [built |-> "none", error |-> NoError, pc |-> "idle", fetchLog |-> <<>>,
   jsonReads |-> 0, outcome |-> NoResult]
NoCables ==
  [endpoint |-> NoEndpoint, token |-> Null, call |-> NoCall, fetched |-> NoFetch,
   make |-> NoSide, http |-> NoSide]

\* A call slot.  stack holds the async functions suspended at an await,
\* outermost first; pending is the settled promise the top of the stack is
\* about to resume with.
IdleCall ==
  [pc |-> "idle", entry |-> "none", cable |-> "none", feat |-> "", method |-> "",
   arg |-> NoValue, ctx |-> "", payload |-> NoPayload, stack |-> <<>>,
   pending |-> NoResult, outcome |-> NoResult,
   cableLog |-> <<>>, cableOut |-> NoResult,
   routerLog |-> <<>>, routeLog |-> <<>>, factoryLog |-> <<>>, implLog |-> <<>>,
   implOut |-> NoResult, validations |-> 0, checked |-> NoValue,
   serialized |-> 0, routeOut |-> NoResult]

Slots == DOMAIN calls

Init ==
  /\ calls = [c \in {1} |-> IdleCall]
  /\ started = 0
  /\ accepted = 0
  /\ factoryRuns = 0
  /\ http = NoCable
  /\ auth = [token |-> Null]
  /\ build = NoBuild
  /\ registry = Registration
  /\ heap = [x \in Ctxs |-> <<>>]
  /\ journal = <<>>
  /\ mcall = NoDispatch
  /\ cables = NoCables

\* Where a slot stands once the synchronous part of a step is over.
Finish(s) ==
  IF s.pending.st = "none" THEN s
  ELSE IF s.stack = <<>> THEN [s EXCEPT !.pc = "done", !.outcome = s.pending]
  ELSE [s EXCEPT !.pc = "settling"]

Top(s) == IF s.stack = <<>> THEN "" ELSE s.stack[Len(s.stack)]
Pop(s) == [s EXCEPT !.stack = SubSeq(@, 1, Len(@) - 1)]

\* The method is declared and the argument passes its input schema.
Accepts(feat, method, arg) ==
  /\ method \in DOMAIN feat.schema
  /\ parseOrThrow(arg, feat.schema[method].input).ok

\* route.call(ctx, method, arg) is invoked in slot s.  The logs name the
\* route whose factory and implementation ran; routeOut is the promise
\* route.call returned, once it has settled.
RouteEnter(s, feat, implKeys, ctx, method, arg) ==
  LET r == RouteInvoke(feat, implKeys, ctx, method, arg)
      s1 == [s EXCEPT !.routeLog = Append(@, [route |-> feat.name, ctx |-> ctx,
                                               method |-> method, arg |-> arg]),
                      !.factoryLog = @ \o [i \in 1..Len(r.factory) |->
                                             [route |-> feat.name,
                                              ctx |-> r.factory[i].ctx,
                                              impl |-> r.factory[i].impl]],
                      !.implLog = @ \o [i \in 1..Len(r.fn) |->
                                          [route |-> feat.name, fn |-> r.fn[i].fn,
                                           input |-> r.fn[i].input]]]
  IN IF r.fn # <<>>
     THEN [s1 EXCEPT !.stack = Append(@, "route"), !.pc = "awaitImpl"]
     ELSE [s1 EXCEPT !.pending = Rejected(r.err), !.routeOut = Rejected(r.err)]

\* router(ctx, payload) is invoked in slot s.
RouterEnter(s, implKeys, ctx, payload) ==
  LET r == RouterInvoke(registry.routes, payload)
      s1 == [s EXCEPT !.routerLog = Append(@, [ctx |-> ctx, payload |-> payload])]
  IN IF r.tag = "throw" THEN [s1 EXCEPT !.pending = Rejected(r.err)]
     ELSE IF r.tag = "inherited" THEN
       [s1 EXCEPT !.stack = Append(@, "router"), !.pending = Resolved(ObjectToString)]
     ELSE RouteEnter([s1 EXCEPT !.stack = Append(@, "router")],
                     registry.routes[r.call[1].route].feature, implKeys, ctx,
                     r.call[1].method, r.call[1].arg)

\* The counters after slot c went from its old state to s.
Count(c, s) ==
  LET old == Len(calls[c].routeLog)
      new == {i \in (old + 1)..Len(s.routeLog) :
                Accepts(FeatureNamed(s.routeLog[i].route), s.routeLog[i].method,
                        s.routeLog[i].arg)}
  IN /\ accepted' = accepted + Cardinality(new)
     /\ factoryRuns' = factoryRuns + (Len(s.factoryLog) - Len(calls[c].factoryLog))

Begin(c, s) ==
  /\ calls' = [calls EXCEPT ![c] = Finish(s)]
  /\ started' = started + 1
  /\ Count(c, s)
  /\ registry' = RegistryAfter(registry, Finish(s))
  /\ UNCHANGED besideCore

CanBegin(c) == calls[c].pc = "idle" /\ started < MaxCalls

DeclaredMethods == UNION {DOMAIN f.schema : f \in FeatureSet}
\* The objects an implementation factory may return, by their own keys: one
\* that implements every method and one that implements none.
ImplObjects == {DeclaredMethods, {}}

(***************************************************************************)
(* Entry points.                                                           *)
(***************************************************************************)
\* remote[method](arg) on makeRemote(feat, cable) with a mock cable.
RemoteCallMock(c, feat, method, arg) ==
  LET r == RemoteInvoke(feat, method, arg)
      s == [IdleCall EXCEPT !.entry = "remote", !.cable = "mock", !.feat = feat.name,
                            !.method = method, !.arg = arg, !.cableLog = r.cable]
  IN /\ CanBegin(c)
     /\ RemoteGet(feat, method) = "function"
     /\ Begin(c, IF r.cable = <<>> THEN [s EXCEPT !.pending = Rejected(r.err)]
                 ELSE [s EXCEPT !.stack = <<"remote">>, !.pc = "awaitCable"])

\* The same with the cable that calls the router with ctx.
RemoteCallWired(c, feat, method, arg, ctx, implKeys) ==
  LET r == RemoteInvoke(feat, method, arg)
      s == [IdleCall EXCEPT !.entry = "remote", !.cable = "wired", !.feat = feat.name,
                            !.method = method, !.arg = arg, !.ctx = ctx,
                            !.cableLog = r.cable]
  IN /\ CanBegin(c)
     /\ RemoteGet(feat, method) = "function"
     /\ Begin(c, IF r.cable = <<>> THEN [s EXCEPT !.pending = Rejected(r.err)]
                 ELSE RouterEnter([s EXCEPT !.stack = <<"remote", "cable">>], implKeys,
                                  ctx, makePayload(r.cable[1].feature, r.cable[1].method,
                                                   r.cable[1].input)))

\* makeRoute(feat, implFn).call(ctx, method, arg)
RouteCall(c, feat, implKeys, ctx, method, arg) ==
  LET s == [IdleCall EXCEPT !.entry = "route", !.feat = feat.name, !.method = method,
                            !.arg = arg, !.ctx = ctx]
  IN /\ CanBegin(c)
     /\ Begin(c, RouteEnter(s, feat, implKeys, ctx, method, arg))

\* makeRouter(Routes)(ctx, payload)
RouterDispatch(c, implKeys, ctx, payload) ==
  LET s == [IdleCall EXCEPT !.entry = "router", !.feat = payload.feature.s,
                            !.method = payload.method.s, !.arg = payload.input,
                            !.ctx = ctx, !.payload = payload]
  IN /\ CanBegin(c)
     /\ Begin(c, RouterEnter(s, implKeys, ctx, payload))

(***************************************************************************)
(* The collaborators settle.                                               *)
(***************************************************************************)
TransportError == Err("Transport", <<"Failed", "to", "call">>)
BusinessErrors == {Err("Business", <<"Mission", "not", "found">>),
                   Err("Business", <<"User", "not", "found">>)}

Step(c, s) ==
  /\ calls' = [calls EXCEPT ![c] = Finish(s)]
  /\ registry' = RegistryAfter(registry, Finish(s))
  /\ UNCHANGED <<started, accepted, factoryRuns, besideCore>>

\* The mock cable resolves or rejects.
CableSettle(c, result) ==
  /\ calls[c].pc = "awaitCable"
  /\ Step(c, [calls[c] EXCEPT !.pending = result, !.cableOut = result])

\* remote[method](arg) with a cable that throws when it is invoked: the
\* throw leaves the async function at index.ts:91.
RemoteCallThrowing(c, feat, method, arg) ==
  LET r == RemoteInvoke(feat, method, arg)
      s == [IdleCall EXCEPT !.entry = "remote", !.cable = "throwing",
                            !.feat = feat.name, !.method = method, !.arg = arg,
                            !.cableLog = r.cable]
  IN /\ CanBegin(c)
     /\ RemoteGet(feat, method) = "function"
     /\ Begin(c, IF r.cable = <<>> THEN [s EXCEPT !.pending = Rejected(r.err)]
                 ELSE [s EXCEPT !.pending = Rejected(TransportError),
                                !.cableOut = Rejected(TransportError)])

\* The implementation method resolves or rejects.  An inherited function
\* (Object.prototype.toString) returns the tag of its receiver, undefined.
ImplSettle(c, result) ==
  /\ calls[c].pc = "awaitImpl"
  /\ calls[c].implLog[Len(calls[c].implLog)].fn = "inherited"
       => result = Resolved(Text(<<"[object Undefined]">>))
  /\ Step(c, [calls[c] EXCEPT !.pending = result, !.implOut = result])

(***************************************************************************)
(* Resumptions after an await.                                             *)
(***************************************************************************)
Resumes(c, frame) == calls[c].pc = "settling" /\ Top(calls[c]) = frame

RouteResume(c) ==
  LET s == calls[c]
      call == s.routeLog[Len(s.routeLog)]
      r == RouteReturn(FeatureNamed(call.route), call.method, s.pending)
  IN /\ Resumes(c, "route")
     /\ Step(c, [Pop(s) EXCEPT !.pending = r.result,
                               !.routeOut = r.result,
                               !.validations = @ + r.validations,
                               !.checked = r.checked,
                               !.serialized = @ + r.serialized])

RouterResume(c) ==
  /\ Resumes(c, "router")
  /\ Step(c, [Pop(calls[c]) EXCEPT !.pending = RouterReturn(@)])

CableResume(c) ==
  LET r == WiredCableReturn(calls[c].pending)
  IN /\ Resumes(c, "cable")
     /\ Step(c, [Pop(calls[c]) EXCEPT !.pending = r, !.cableOut = r])

\* RemoteResume that calls the mock cable once more when it failed.
RemoteResumeRetry(c) ==
  LET s == calls[c]
  IN /\ Resumes(c, "remote")
     /\ IF s.pending.st = "rejected" /\ s.cable = "mock" /\ Len(s.cableLog) < 2
        THEN Step(c, [s EXCEPT !.pending = NoResult, !.pc = "awaitCable",
                               !.cableLog = Append(@, @[1])])
        ELSE Step(c, [Pop(s) EXCEPT
                        !.pending = RemoteReturn(FeatureNamed(s.feat), s.method, @)])

RemoteResume(c) ==
  LET s == calls[c]
  IN /\ Resumes(c, "remote")
     /\ Step(c, [Pop(s) EXCEPT
                   !.pending = RemoteReturn(FeatureNamed(s.feat), s.method, @)])

\* The caller has its result; the slot is free again.
Return(c) ==
  /\ calls[c].pc = "done"
  /\ calls' = [calls EXCEPT ![c] = IdleCall]
  /\ UNCHANGED <<started, accepted, factoryRuns, registry, besideCore>>

(***************************************************************************)
(* Inputs.                                                                 *)
(***************************************************************************)
EnvFields(names) == {EnvString(n) : n \in names} \cup {NotAString}
Payloads ==
  [feature : EnvFields(FeatureNames), method : EnvFields(MethodNames), input : Values]
CableResults == {Resolved(v) : v \in Values} \cup {Rejected(TransportError)}
ImplResults == {Resolved(v) : v \in Values} \cup {Rejected(e) : e \in BusinessErrors}

\* A new call takes an idle slot; its inputs are drawn from the sets above.
Next ==
  \/ \E c \in Slots : CanBegin(c) /\
       \E f \in FeatureSet, m \in MethodNames, a \in Values :
         RemoteCallMock(c, f, m, a)
  \/ \E c \in Slots : CanBegin(c) /\
       \E f \in FeatureSet, m \in MethodNames, a \in Values, x \in Ctxs,
          k \in ImplObjects : RemoteCallWired(c, f, m, a, x, k)
  \/ \E c \in Slots : CanBegin(c) /\
       \E f \in FeatureSet, k \in ImplObjects, x \in Ctxs, m \in MethodNames,
          a \in Values : RouteCall(c, f, k, x, m, a)
  \/ \E c \in Slots : CanBegin(c) /\
       \E k \in ImplObjects, x \in Ctxs, p \in Payloads : RouterDispatch(c, k, x, p)
  \/ \E c \in Slots : CanBegin(c) /\
       \E f \in FeatureSet, m \in MethodNames, a \in Values :
         RemoteCallThrowing(c, f, m, a)
  \/ \E c \in Slots, r \in CableResults : CableSettle(c, r)
  \/ \E c \in Slots, r \in ImplResults : ImplSettle(c, r)
  \/ \E c \in Slots : RouteResume(c)
  \/ \E c \in Slots : RouterResume(c)
  \/ \E c \in Slots : CableResume(c)
  \/ \E c \in Slots : RemoteResume(c)
  \/ \E c \in Slots : Return(c)

Spec == Init /\ [][Next]_vars

(***************************************************************************)
(* The same steps under the scheduling of the event loop.  A promise that  *)
(* is awaited and has settled has its continuation run as a microtask, so  *)
(* each resumption is taken once it is enabled.  That the cable and the    *)
(* implementation method settle is the environment's part.  Nothing makes  *)
(* a caller start a call or take up its result.                            *)
(***************************************************************************)
EnvironmentSettles ==
  /\ WF_vars(\E c \in Slots, r \in CableResults : CableSettle(c, r))
  /\ WF_vars(\E c \in Slots, r \in ImplResults : ImplSettle(c, r))

Microtasks ==
  /\ WF_vars(\E c \in Slots : RouteResume(c))
  /\ WF_vars(\E c \in Slots : RouterResume(c))
  /\ WF_vars(\E c \in Slots : CableResume(c))
  /\ WF_vars(\E c \in Slots : RemoteResume(c))

SpecLive == Spec /\ EnvironmentSettles /\ Microtasks

(***************************************************************************)
(* The HTTP cable's steps.                                                 *)
(***************************************************************************)
\* httpCable(endpoint, auth) is called with a fresh auth object.
HttpConstruct(endpoint, token) ==
  /\ http.pc = "idle"
  /\ http' = [NoCable EXCEPT
       !.cable = IF httpCable(endpoint) = NoError THEN "built" ELSE "failed",
       !.endpoint = endpoint,
       !.error = httpCable(endpoint),
       !.builtWithToken = ~token.null /\ token.s # ""]
  /\ auth' = [token |-> token]
  /\ UNCHANGED besideHttp

\* The application logs in, logs out or refreshes the token.
SetToken(token) ==
  /\ http.cable = "built"
  /\ auth.token # token
  /\ auth' = [token |-> token]
  /\ UNCHANGED <<http, besideHttp>>

\* cable(feature, method, input) runs to its first await or to its throw.
HttpCall(feat, method, input) ==
  /\ http.cable = "built"
  /\ http.pc = "idle"
  /\ LET r == HttpInvoke(http.endpoint, auth.token, feat, method, input)
     IN http' = [http EXCEPT
          !.pc = IF r.err = NoError THEN "awaitFetch" ELSE "done",
          !.call = [feature |-> feat, method |-> method, input |-> input,
                    token |-> auth.token],
          !.fetchLog = r.fetch,
          !.fetched = NoFetch,
          !.jsonReads = 0,
          !.outcome = IF r.err = NoError THEN NoResult ELSE Rejected(r.err),
          !.requested = @ \/ r.fetch # <<>>]
  /\ UNCHANGED <<auth, besideHttp>>

\* fetch settles and the cable resumes up to its next await or its throw.
FetchSettle(fetched) ==
  /\ http.pc = "awaitFetch"
  /\ LET r == HttpResponse(http.call.feature, http.call.method, fetched)
     IN http' = [http EXCEPT
          !.pc = IF r.result = NoResult THEN "awaitJson" ELSE "done",
          !.fetched = fetched,
          !.jsonReads = r.json,
          !.outcome = r.result]
  /\ UNCHANGED <<auth, besideHttp>>

\* response.json() settles and the cable returns what it gave.
JsonSettle ==
  /\ http.pc = "awaitJson"
  /\ http' = [http EXCEPT !.pc = "done", !.outcome = ResponseJson(http.fetched.resp)]
  /\ UNCHANGED <<auth, besideHttp>>

\* The caller has taken the outcome; the cable can be invoked again.
HttpReturn ==
  /\ http.pc = "done"
  /\ http' = [http EXCEPT !.pc = "idle"]
  /\ UNCHANGED <<auth, besideHttp>>

StatusTexts == {"OK", "Internal Server Error"}
Bodies == {JSONstringify(v) : v \in Values \ {Undefined}} \cup {Text(<<"<html>">>)}
Responses == {Response(ok, st, b) : ok \in BOOLEAN, st \in StatusTexts, b \in Bodies}
NetworkError == TypeError("fetch failed")
FetchResults == {Fetched(r) : r \in Responses} \cup {FetchFailed(NetworkError)}
HttpFeatures == {"user", "crew"}
HttpMethods == {"getProfile", "getOfficer"}

NextHttp ==
  \/ \E endpoint \in Endpoints, token \in Tokens : HttpConstruct(endpoint, token)
  \/ \E token \in Tokens : SetToken(token)
  \/ \E feat \in HttpFeatures, method \in HttpMethods, input \in Values :
       HttpCall(feat, method, input)
  \/ \E fetched \in FetchResults : FetchSettle(fetched)
  \/ JsonSettle
  \/ HttpReturn

SpecHttp == Init /\ [][NextHttp]_vars

(***************************************************************************)
(* The two cable constructors side by side.                                *)
(***************************************************************************)
\* A constructor has thrown error or returned the cable.
SideBuilt(error) ==
  [NoSide EXCEPT !.built = IF error = NoError THEN "built" ELSE "failed",
                 !.error = error]

\* A cable, if there is one, is invoked and runs to its await or its throw.
SideCall(side, r) ==
  IF side.built # "built" THEN side
  ELSE [side EXCEPT !.pc = IF r.err = NoError THEN "awaitFetch" ELSE "done",
                    !.fetchLog = r.fetch,
                    !.jsonReads = 0,
                    !.outcome = IF r.err = NoError THEN NoResult ELSE Rejected(r.err)]

\* fetch settles for a cable that awaits it.
SideFetched(side, r) ==
  IF side.pc # "awaitFetch" THEN side
  ELSE [side EXCEPT !.pc = IF r.result = NoResult THEN "awaitJson" ELSE "done",
                    !.jsonReads = r.json,
                    !.outcome = r.result]

\* response.json() settles for a cable that awaits it.
SideJson(side, resp) ==
  IF side.pc # "awaitJson" THEN side
  ELSE [side EXCEPT !.pc = "done", !.outcome = ResponseJson(resp)]

SideReturn(side) == IF side.pc = "done" THEN [side EXCEPT !.pc = "idle"] ELSE side

SidesAt(pc) == cables.make.pc = pc \/ cables.http.pc = pc
SidesIdle == cables.make.pc = "idle" /\ cables.http.pc = "idle"

\* makeCable(endpoint, auth) and httpCable(endpoint, auth), same arguments.
CablesConstruct(endpoint, token) ==
  /\ SidesIdle
  /\ cables' = [NoCables EXCEPT !.endpoint = endpoint, !.token = token,
                                !.make = SideBuilt(makeCable(endpoint)),
                                !.http = SideBuilt(httpCable(endpoint))]
  /\ UNCHANGED <<coreVars, http, auth, build, missionVars>>

\* Both cables are invoked with the same feature, method and input.
CablesCall(feat, method, input) ==
  /\ SidesIdle
  /\ cables.make.built = "built" \/ cables.http.built = "built"
  /\ cables' =
       [cables EXCEPT
          !.call = [feature |-> feat, method |-> method, input |-> input,
                    token |-> cables.token],
          !.fetched = NoFetch,
          !.make = SideCall(@, makeCableInvoke(cables.endpoint, cables.token, feat,
                                               method, input)),
          !.http = SideCall(@, HttpInvoke(cables.endpoint, cables.token, feat,
                                          method, input))]
  /\ UNCHANGED <<coreVars, http, auth, build, missionVars>>

\* The server's answer, or the network failure, reaches both.
CablesFetchSettle(fetched) ==
  /\ SidesAt("awaitFetch")
  /\ cables' =
       [cables EXCEPT
          !.fetched = fetched,
          !.make = SideFetched(@, makeCableResponse(cables.call.feature,
                                                    cables.call.method, fetched)),
          !.http = SideFetched(@, HttpResponse(cables.call.feature,
                                               cables.call.method, fetched))]
  /\ UNCHANGED <<coreVars, http, auth, build, missionVars>>

CablesJsonSettle ==
  /\ SidesAt("awaitJson")
  /\ ~SidesAt("awaitFetch")
  /\ cables' = [cables EXCEPT !.make = SideJson(@, cables.fetched.resp),
                              !.http = SideJson(@, cables.fetched.resp)]
  /\ UNCHANGED <<coreVars, http, auth, build, missionVars>>

CablesReturn ==
  /\ SidesAt("done")
  /\ ~SidesAt("awaitFetch") /\ ~SidesAt("awaitJson")
  /\ cables' = [cables EXCEPT !.make = SideReturn(@), !.http = SideReturn(@)]
  /\ UNCHANGED <<coreVars, http, auth, build, missionVars>>

NextCables ==
  \/ \E endpoint \in Endpoints, token \in Tokens : CablesConstruct(endpoint, token)
  \/ \E feat \in HttpFeatures, method \in HttpMethods, input \in Values :
       CablesCall(feat, method, input)
  \/ \E fetched \in FetchResults : CablesFetchSettle(fetched)
  \/ CablesJsonSettle
  \/ CablesReturn

SpecCables == Init /\ [][NextCables]_vars

(***************************************************************************)
(* Two dispatches in flight at once on one router: two call slots, each    *)
(* taking the steps of Spec, in any interleaving.                          *)
(***************************************************************************)
InitTwo ==
  /\ calls = [c \in {1, 2} |-> IdleCall]
  /\ started = 0
  /\ accepted = 0
  /\ factoryRuns = 0
  /\ http = NoCable
  /\ auth = [token |-> Null]
  /\ build = NoBuild
  /\ registry = Registration
  /\ heap = [x \in Ctxs |-> <<>>]
  /\ journal = <<>>
  /\ mcall = NoDispatch
  /\ cables = NoCables

\* Envelopes of concurrent clients: a valid argument, one with a field the
\* input schema strips, and one that is no object.
TwoInputs == {Obj([id |-> "1"]), Obj([id |-> "1", name |-> "'a'"]), Atom("1")}
TwoPayloads ==
  {makePayload(f, m, a) : f \in {"user", "crew"}, m \in {"getProfile", "getOfficer"},
                          a \in TwoInputs}
TwoResults ==
  {Resolved(Obj([id |-> "1", name |-> "'a'"])), Resolved(Obj([name |-> "'a'"])),
   Rejected(Err("Business", <<"User", "not", "found">>))}

NextTwo ==
  \/ \E c \in Slots : CanBegin(c) /\
       \E x \in Ctxs, p \in TwoPayloads : RouterDispatch(c, DeclaredMethods, x, p)
  \/ \E c \in Slots, r \in TwoResults : ImplSettle(c, r)
  \/ \E c \in Slots : RouteResume(c)
  \/ \E c \in Slots : RouterResume(c)
  \/ \E c \in Slots : Return(c)

SpecTwo == InitTwo /\ [][NextTwo]_vars

(***************************************************************************)
(* The missions scenario: dispatches of makeRouter({missions: route}), one *)
(* after the other, each with a ctx of the caller's choice.                *)
(***************************************************************************)
\* router(ctx, {feature: "missions", method, input}) runs to its await:
\* route.call validates the input, hands ctx to the factory and calls the
\* method, whose body runs on the ctx the factory was handed.
MissionDispatch(ctx, method, input) ==
  LET r == RouterInvoke(MissionRoutes, makePayload("missions", method, input))
      ri == RouteInvoke(missionsFeature, MissionMethods, ctx, r.call[1].method,
                        r.call[1].arg)
      handed == ri.factory[1].ctx
      run == missionsImpl(method, heap[handed], ri.fn[1].input)
      settled(e) == Append(journal, [ctx |-> ctx, method |-> method, input |-> input,
                                     result |-> Rejected(e)])
      call == [pc |-> "route", ctx |-> ctx, method |-> method, input |-> input,
               pending |-> NoResult]
  IN /\ mcall.pc = "idle"
     /\ Len(journal) < MaxDispatches
     /\ IF r.tag # "route" THEN
          /\ journal' = settled(r.err)
          /\ UNCHANGED <<heap, mcall>>
        ELSE IF ri.fn = <<>> THEN
          /\ mcall' = [call EXCEPT !.pc = "router", !.pending = Rejected(ri.err)]
          /\ UNCHANGED <<heap, journal>>
        ELSE
          /\ heap' = [heap EXCEPT ![handed] = run.store]
          /\ mcall' = [call EXCEPT !.pending = run.result]
          /\ UNCHANGED journal
     /\ UNCHANGED <<coreVars, httpVars, build>>

\* route.call resumes after `await fn(parsedInput)`.
MissionRouteResume ==
  /\ mcall.pc = "route"
  /\ mcall' = [mcall EXCEPT !.pc = "router",
                            !.pending = MissionReturn(mcall.method, mcall.pending)]
  /\ UNCHANGED <<heap, journal, coreVars, httpVars, build>>

\* The router resumes after `await route.call(...)` and its caller gets
\* the outcome.
MissionRouterResume ==
  /\ mcall.pc = "router"
  /\ journal' = Append(journal, [ctx |-> mcall.ctx, method |-> mcall.method,
                                 input |-> mcall.input,
                                 result |-> RouterReturn(mcall.pending)])
  /\ mcall' = NoDispatch
  /\ UNCHANGED <<heap, coreVars, httpVars, build>>

\* The arguments of the scenario, by method.
MissionInputs ==
  [create |-> {Obj([title |-> "'a'"])}, list |-> {Obj(EmptyFields)},
   complete |-> {Obj([id |-> "1"])}, get |-> {Obj([id |-> "1"])}]

\* The methods each client, with its own ctx, calls: one runs the whole
\* scenario, the other creates and lists.
MissionClients == [ctx1 |-> {"create", "list"}, ctx2 |-> MissionMethods]

NextMissions ==
  \/ \E ctx \in Ctxs : \E method \in MissionClients[ctx] :
       \E input \in MissionInputs[method] : MissionDispatch(ctx, method, input)
  \/ MissionRouteResume
  \/ MissionRouterResume

SpecMissions == Init /\ [][NextMissions]_vars

(***************************************************************************)
(* Building a feature definition (index.ts: transform, feature).           *)
(***************************************************************************)
\* transform(input)
TransformStep(input) ==
  /\ build.pc = "none"
  /\ build' = [NoBuild EXCEPT !.pc = "builder", !.input = input,
                              !.builder = Builder(input)]
  /\ UNCHANGED <<coreVars, httpVars, missionVars>>

\* .to(output) on the object transform returned
ToStep(output) ==
  /\ build.pc = "builder"
  /\ build' = [build EXCEPT !.pc = "callable", !.output = output,
                            !.callable = to(build.builder, output)]
  /\ UNCHANGED <<coreVars, httpVars, missionVars>>

\* feature(name, schema), schema giving the callable just built to each of
\* the method names
FeatureStep(name, methods) ==
  LET schema == [m \in methods |-> build.callable]
  IN /\ build.pc = "callable"
     /\ build' = [build EXCEPT !.pc = "feature", !.name = name, !.schema = schema,
                               !.feature = feature(name, schema)]
     /\ UNCHANGED <<coreVars, httpVars, missionVars>>

\* The definition is dropped and another one can be built.
BuildReset ==
  /\ build.pc = "feature"
  /\ build' = NoBuild
  /\ UNCHANGED <<coreVars, httpVars, missionVars>>

\* What transform, to and feature are given: schemas, and undefined.
Schemas == {IdSchema, ProfileSchema, NameSchema, UnknownSchema, NoSchema}
BuildNames == {"user", "crew", ""}
BuildMethods == {"getProfile", "notify"}

NextBuild ==
  \/ \E input \in Schemas : TransformStep(input)
  \/ \E output \in Schemas : ToStep(output)
  \/ \E name \in BuildNames, methods \in SUBSET BuildMethods :
       FeatureStep(name, methods)
  \/ BuildReset

SpecBuild == Init /\ [][NextBuild]_vars

(***************************************************************************)
(* Properties.                                                             *)
(***************************************************************************)
\* The calls that entered through a Remote Proxy method the feature declares.
RemoteCalls ==
  {c \in Slots : calls[c].entry = "remote"
                 /\ calls[c].method \in DOMAIN FeatureNamed(calls[c].feat).schema}
InputOf(c) == FeatureNamed(calls[c].feat).schema[calls[c].method].input
OutputOf(c) == FeatureNamed(calls[c].feat).schema[calls[c].method].output

\* C1: a Remote Proxy call on a declared method whose argument fails the
\* method's input schema rejects with a validation error and never invokes
\* the cable.
C1_FailFastOnBadInput ==
  \A c \in RemoteCalls :
    ~parseOrThrow(calls[c].arg, InputOf(c)).ok
      => /\ calls[c].cableLog = <<>>
         /\ calls[c].pc = "done"
         /\ calls[c].outcome = Rejected(ValidationError)

C1_Witness ==
  \E c \in RemoteCalls :
    /\ ~parseOrThrow(calls[c].arg, InputOf(c)).ok
    /\ calls[c].arg.t = "object"
    /\ calls[c].outcome.st = "rejected"

\* C2: a Remote Proxy call on a declared method invokes the cable exactly
\* once when the input is valid and never otherwise, at every point of the
\* call and however the cable or the output validation ends: no retry.
C2_OneCableInvocation ==
  \A c \in RemoteCalls :
    Len(calls[c].cableLog)
      = IF parseOrThrow(calls[c].arg, InputOf(c)).ok THEN 1 ELSE 0

C2_Witness ==
  \E c \in RemoteCalls :
    /\ calls[c].pc = "done"
    /\ calls[c].cableOut.st = "rejected"
    /\ calls[c].outcome.st = "rejected"
    /\ Len(calls[c].cableLog) = 1

\* C3: the cable is invoked with the feature's name, the method's name and
\* the validated input (what parsing the argument against the input schema
\* produced), not the argument as it came.
C3_CableArguments ==
  \A c \in Slots :
    calls[c].entry = "remote" =>
      \A i \in 1..Len(calls[c].cableLog) :
        /\ calls[c].method \in DOMAIN FeatureNamed(calls[c].feat).schema
        /\ calls[c].cableLog[i] =
             [feature |-> calls[c].feat, method |-> calls[c].method,
              input |-> parseOrThrow(calls[c].arg, InputOf(c)).val]

C3_Witness ==
  \E c \in RemoteCalls :
    /\ calls[c].cableLog # <<>>
    /\ calls[c].cableLog[1].input # calls[c].arg
    /\ calls[c].cableLog[1].method = "getProfile"

\* C4: once the cable has returned a raw result, the Remote Proxy call
\* settles with the outcome of validating it against the output schema: it
\* rejects with a validation error when validation fails and resolves to
\* the validated value, not the raw one, when it succeeds.
C4_OutputValidated ==
  \A c \in RemoteCalls :
    (calls[c].pc = "done" /\ calls[c].cableOut.st = "resolved") =>
      LET parsed == parseOrThrow(calls[c].cableOut.val, OutputOf(c))
      IN IF parsed.ok THEN calls[c].outcome = Resolved(parsed.val)
         ELSE calls[c].outcome = Rejected(ValidationError)

C4_Witness ==
  \E c \in RemoteCalls :
    /\ calls[c].pc = "done"
    /\ calls[c].cableOut.st = "resolved"
    /\ calls[c].outcome.st = "resolved"
    /\ calls[c].outcome.val # calls[c].cableOut.val

\* The calls in which route.call was invoked, and that invocation.
RouteCalls == {c \in Slots : calls[c].routeLog # <<>>}
RouteCallOf(c) == calls[c].routeLog[1]
RouteFeature(c) == FeatureNamed(RouteCallOf(c).route)
RouteAccepts(c) == Accepts(RouteFeature(c), RouteCallOf(c).method, RouteCallOf(c).arg)
RouteOutput(c) == RouteFeature(c).schema[RouteCallOf(c).method].output

\* C5: round trip.  A Remote Proxy call over the cable wired to the router,
\* with a valid argument and an implementation result valid for the output
\* schema, resolves to the implementation's validated result.
C5_RoundTrip ==
  \A c \in RemoteCalls :
    (/\ calls[c].cable = "wired"
     /\ calls[c].pc = "done"
     /\ parseOrThrow(calls[c].arg, InputOf(c)).ok
     /\ calls[c].implOut.st = "resolved"
     /\ parseOrThrow(calls[c].implOut.val, OutputOf(c)).ok)
      => calls[c].outcome
           = Resolved(parseOrThrow(calls[c].implOut.val, OutputOf(c)).val)

\* C6: route.call with a method name the feature does not declare rejects
\* with a Not Found error whose message contains the name, and invokes
\* neither the factory nor an implementation method.
C6_UndeclaredMethodNotFound ==
  \A c \in Slots :
    (calls[c].entry = "route"
     /\ calls[c].method \notin DOMAIN FeatureNamed(calls[c].feat).schema)
      => /\ calls[c].pc = "done"
         /\ calls[c].outcome.st = "rejected"
         /\ calls[c].outcome.err.kind = "NotFound"
         /\ Contains(calls[c].outcome.err.msg, calls[c].method)
         /\ calls[c].factoryLog = <<>>
         /\ calls[c].implLog = <<>>

\* C7: route.call with a declared method and an argument that fails its
\* input schema rejects with a validation error, and neither the factory
\* nor the implementation method is invoked.
C7_RouteRejectsBadInput ==
  \A c \in RouteCalls :
    (/\ RouteCallOf(c).method \in DOMAIN RouteFeature(c).schema
     /\ ~RouteAccepts(c))
      => /\ calls[c].factoryLog = <<>>
         /\ calls[c].implLog = <<>>
         /\ calls[c].entry = "route"
              => calls[c].pc = "done" /\ calls[c].outcome = Rejected(ValidationError)

C7_Witness ==
  \E c \in RouteCalls :
    /\ calls[c].entry = "route"
    /\ RouteCallOf(c).method \in DOMAIN RouteFeature(c).schema
    /\ RouteCallOf(c).arg.t = "object"
    /\ calls[c].outcome = Rejected(ValidationError)

\* C8: the factory runs exactly once in every route.call whose method is
\* declared and whose input is valid, with the ctx of that call, and over
\* any sequence of calls it has run as often as there were such calls:
\* nothing is cached.
C8_FactoryEveryCall ==
  /\ factoryRuns = accepted
  /\ \A c \in RouteCalls :
       RouteAccepts(c) =>
         /\ Len(calls[c].factoryLog) = 1
         /\ calls[c].factoryLog[1].ctx = RouteCallOf(c).ctx

C8_Witness ==
  /\ factoryRuns = 2
  /\ \E c \in RouteCalls : RouteAccepts(c) /\ calls[c].pc = "awaitImpl"

C10_ImplFailureUnchanged ==
  \A c \in RouteCalls :
    (calls[c].implOut.st = "rejected" /\ Top(calls[c]) # "route")
      => /\ calls[c].validations = 0
         /\ calls[c].serialized = 0
         /\ calls[c].pc = "settling" => calls[c].pending = calls[c].implOut
         /\ calls[c].pc = "done" => calls[c].outcome = calls[c].implOut

C10_Witness ==
  \E c \in RouteCalls :
    /\ calls[c].entry = "router"
    /\ calls[c].pc = "done"
    /\ calls[c].implOut \in {Rejected(e) : e \in BusinessErrors}
    /\ calls[c].outcome = calls[c].implOut

\* C11: when the implementation method succeeds with a value that fails the
\* method's output schema, route.call rejects with a validation error and
\* nothing is serialized.
C11_RouteRejectsBadOutput ==
  \A c \in RouteCalls :
    (/\ calls[c].implOut.st = "resolved"
     /\ ~parseOrThrow(calls[c].implOut.val, RouteOutput(c)).ok
     /\ Top(calls[c]) # "route")
      => /\ calls[c].serialized = 0
         /\ calls[c].checked = NoValue
         /\ calls[c].entry \in {"route", "router"} =>
              /\ calls[c].pc = "settling" => calls[c].pending = Rejected(ValidationError)
              /\ calls[c].pc = "done" => calls[c].outcome = Rejected(ValidationError)

C11_Witness ==
  \E c \in RouteCalls :
    /\ calls[c].entry = "route"
    /\ calls[c].pc = "done"
    /\ calls[c].implOut.st = "resolved"
    /\ calls[c].implOut.val.t = "object"
    /\ calls[c].outcome = Rejected(ValidationError)

\* C12: whenever route.call resolves, its value is text, and parsing that
\* text as JSON yields the validated result of the implementation.
C12_SerializationContract ==
  \A c \in RouteCalls :
    (calls[c].entry = "route" /\ calls[c].pc = "done"
     /\ calls[c].outcome.st = "resolved")
      => /\ calls[c].outcome.val.t = "string"
         /\ JSONparse(calls[c].outcome.val) = Ok(calls[c].checked)

\* The calls that entered through the router, and the envelope they gave it.
RouterCalls == {c \in Slots : calls[c].entry = "router"}
EnvelopeOf(c) == calls[c].payload
ValidEnvelope(c) == EnvelopeOf(c).feature.str /\ EnvelopeOf(c).method.str

\* C13: a payload that does not match the envelope schema (feature and
\* method strings, input anything) makes the router reject with a
\* validation error, and no route.call, factory or implementation method is
\* invoked.
C13_EnvelopeValidated ==
  \A c \in RouterCalls :
    ~ValidEnvelope(c)
      => /\ calls[c].pc = "done"
         /\ calls[c].outcome = Rejected(ValidationError)
         /\ calls[c].routeLog = <<>>
         /\ calls[c].factoryLog = <<>>
         /\ calls[c].implLog = <<>>

C13_Witness ==
  \E c \in RouterCalls :
    /\ EnvelopeOf(c).feature = EnvString("user")
    /\ ~EnvelopeOf(c).method.str
    /\ calls[c].outcome.st = "rejected"

\* C14: a valid envelope whose feature name is not a key of the route
\* mapping makes the router reject with a Not Found error whose message
\* contains that name, and no route is invoked.
C14_UnknownFeatureNotFound ==
  \A c \in RouterCalls :
    (ValidEnvelope(c) /\ EnvelopeOf(c).feature.s \notin DOMAIN Routes)
      => /\ calls[c].routeLog = <<>>
         /\ calls[c].pc = "done" =>
              /\ calls[c].outcome.st = "rejected"
              /\ calls[c].outcome.err.kind = "NotFound"
              /\ Contains(calls[c].outcome.err.msg, EnvelopeOf(c).feature.s)

\* C15: a router over several routes dispatches an envelope that names
\* feature f to the route registered under f only: no other route's call,
\* factory or implementation method runs in that dispatch.
C15_OnlyTheNamedRoute ==
  \A c \in Slots :
    calls[c].routerLog # <<>> =>
      LET f == calls[c].routerLog[1].payload.feature.s
      IN /\ \A i \in 1..Len(calls[c].routeLog) : calls[c].routeLog[i].route = f
         /\ \A i \in 1..Len(calls[c].factoryLog) : calls[c].factoryLog[i].route = f
         /\ \A i \in 1..Len(calls[c].implLog) : calls[c].implLog[i].route = f

C15_Witness ==
  /\ Cardinality(DOMAIN Routes) > 1
  /\ \E c \in RouterCalls :
       /\ EnvelopeOf(c).feature.s = "crew"
       /\ calls[c].pc = "done"
       /\ calls[c].implLog # <<>>
       /\ calls[c].implLog[1].route = "crew"

\* C16: for a valid envelope that names a registered feature the router
\* calls route.call exactly once, with its ctx and the envelope's method and
\* input, and settles exactly as that call settled.
C16_RouterDelegates ==
  \A c \in RouterCalls :
    (ValidEnvelope(c) /\ EnvelopeOf(c).feature.s \in DOMAIN Routes)
      => /\ calls[c].routeLog =
              <<[route |-> EnvelopeOf(c).feature.s, ctx |-> calls[c].ctx,
                 method |-> EnvelopeOf(c).method.s, arg |-> EnvelopeOf(c).input]>>
         /\ calls[c].pc = "done" =>
              /\ calls[c].routeOut.st # "none"
              /\ calls[c].outcome = calls[c].routeOut

C16_Witness ==
  \E c \in RouterCalls :
    /\ calls[c].pc = "done"
    /\ calls[c].routeOut.st = "resolved"
    /\ calls[c].routeOut.val.t = "string"
    /\ calls[c].outcome = calls[c].routeOut

\* The HTTP cable has been invoked (the last invocation's record is kept
\* until the next one starts).
HttpInvoked == http.call # NoCall

\* C17: a cable constructed with an undefined endpoint fails at
\* construction with "Backend endpoint is not set": no cable exists, so it
\* is never invoked and no request is ever made.
C17_NoEndpointFailsConstruction ==
  (http.cable # "none" /\ ~http.endpoint.def)
    => /\ http.cable = "failed"
       /\ http.error = Err("Error", <<"Backend", "endpoint", "is", "not", "set">>)
       /\ ~HttpInvoked
       /\ http.pc = "idle"
       /\ http.fetchLog = <<>>

C17_Witness ==
  /\ http.cable = "failed"
  /\ ~http.endpoint.def
  /\ http.error.kind = "Error"

\* C18: an invocation that finds auth.token null rejects with the
\* authentication error and fetch is not called for it.
C18_NoTokenNoRequest ==
  (HttpInvoked /\ http.call.token.null)
    => /\ http.outcome =
            Rejected(Err("Error", <<"User", "not", "authenticated,", "cannot",
                                    "call", "cable", "without", "a", "token">>))
       /\ http.fetchLog = <<>>
       /\ http.fetched = NoFetch
       /\ http.pc \in {"done", "idle"}

C18_Witness ==
  /\ HttpInvoked
  /\ http.call.token.null
  /\ http.pc = "done"
  /\ http.outcome.st = "rejected"

\* The message names the pair as feat "." method.
NamesPair(msg, feat, method) ==
  \E i \in 1..(Len(msg) - 2) :
    msg[i] = feat /\ msg[i + 1] = "." /\ msg[i + 2] = method

\* C19: when fetch resolves with a response that is not ok, the cable
\* rejects with an error whose message holds "<feature>.<method>" and the
\* response's status text, and response.json() is not called.
C19_NonSuccessRejects ==
  (http.fetched.st = "resolved" /\ ~http.fetched.resp.ok)
    => /\ http.outcome.st = "rejected"
       /\ NamesPair(http.outcome.err.msg, http.call.feature, http.call.method)
       /\ Contains(http.outcome.err.msg, http.fetched.resp.statusText)
       /\ http.jsonReads = 0
       /\ http.pc \in {"done", "idle"}

C19_Witness ==
  /\ http.fetched.st = "resolved"
  /\ ~http.fetched.resp.ok
  /\ http.fetched.resp.statusText = "Internal Server Error"
  /\ http.pc = "done"
  /\ http.outcome.st = "rejected"

\* What a receiver reads in a request body: the envelope's three values,
\* input being undefined when the body has no such member.
EnvelopeInBody(body) ==
  LET t == body.txt
      n == Len(t)
  IN IF \/ body.t # "string" \/ n < 9 \/ t[n] # "}"
        \/ SubSeq(t, 1, 3) # <<"{", "feature", ":">>
        \/ SubSeq(t, 5, 7) # <<",", "method", ":">>
        \/ (n > 9 /\ (n < 13 \/ SubSeq(t, 9, 11) # <<",", "input", ":">>))
     THEN [feature |-> "", method |-> "", input |-> NoValue]
     ELSE [feature |-> t[4], method |-> t[8],
           input |-> IF n = 9 THEN Undefined
                     ELSE JSONparse(Text(SubSeq(t, 12, n - 1))).val]

\* C20: an invocation that finds a token makes exactly one request: a POST
\* to the endpoint the cable was built with, whose body is the envelope of
\* the three arguments and whose headers are Authorization "Bearer <token>"
\* and Content-Type "application/json"; on an ok response whose body is
\* JSON it resolves to the parsed body.
C20_AuthenticatedRequest ==
  (HttpInvoked /\ ~http.call.token.null /\ http.call.token.s # "")
    => /\ Len(http.fetchLog) = 1
       /\ http.fetchLog[1].method = "POST"
       /\ http.fetchLog[1].url = http.endpoint.url
       /\ http.endpoint.def /\ http.endpoint.url # ""
       /\ EnvelopeInBody(http.fetchLog[1].body) =
            [feature |-> http.call.feature, method |-> http.call.method,
             input |-> http.call.input]
       /\ http.fetchLog[1].headers =
            [ContentType |-> "application/json",
             Authorization |-> <<"Bearer", http.call.token.s>>]
       /\ (/\ http.pc \in {"done", "idle"}
           /\ http.fetched.st = "resolved"
           /\ http.fetched.resp.ok
           /\ JSONparse(http.fetched.resp.body).ok)
            => /\ http.outcome = Resolved(JSONparse(http.fetched.resp.body).val)
               /\ http.jsonReads = 1

C20_Witness ==
  /\ HttpInvoked
  /\ http.call.token = Token("test-token-123")
  /\ http.call.input.t = "object"
  /\ Len(http.fetchLog) = 1
  /\ http.pc = "done"
  /\ http.fetched.st = "resolved"
  /\ http.fetched.resp.ok
  /\ http.outcome.st = "resolved"
  /\ http.outcome.val.t = "object"

\* C21: the object makeRemote builds has a callable entry for the declared
\* method names only, so no call is ever made through an entry of an
\* undeclared name.
C21_OnlyDeclaredCallable ==
  \A c \in Slots :
    calls[c].entry = "remote"
      => calls[c].method \in DOMAIN FeatureNamed(calls[c].feat).schema

\* C22: transform(i).to(o) is the callable whose input is i and whose
\* output is o, and feature(n, s) is the feature whose name is n and whose
\* schema is s, with the method names of s; what they are given is kept as
\* it is, a schema or not, and nothing else changes.
C22_ConstructionLossless ==
  /\ build.pc \in {"callable", "feature"}
       => /\ build.callable.input = build.input
          /\ build.callable.output = build.output
          /\ DOMAIN build.callable = {"input", "output"}
  /\ build.pc = "feature"
       => /\ build.feature.name = build.name
          /\ build.feature.schema = build.schema
          /\ DOMAIN build.feature.schema = DOMAIN build.schema
          /\ \A m \in DOMAIN build.schema :
               build.feature.schema[m] = [input |-> build.input, output |-> build.output]
  /\ calls = [c \in {1} |-> IdleCall]
  /\ http = NoCable

C22_Witness ==
  /\ build.pc = "feature"
  /\ build.input = IdSchema
  /\ build.output = NoSchema
  /\ build.name = "user"
  /\ DOMAIN build.feature.schema = {"getProfile", "notify"}

\* What a dispatch of payload with ctx settles with when it runs alone and
\* its implementation method, if reached, settles with implOut.
AloneOutcome(implKeys, ctx, payload, implOut) ==
  LET r == RouterInvoke(Routes, payload)
      feat == Routes[r.call[1].route].feature
      ri == RouteInvoke(feat, implKeys, ctx, r.call[1].method, r.call[1].arg)
  IN IF r.tag = "throw" THEN Rejected(r.err)
     ELSE IF r.tag = "inherited" THEN Resolved(ObjectToString)
     ELSE IF ri.fn = <<>> THEN Rejected(ri.err)
     ELSE RouterReturn(RouteReturn(feat, r.call[1].method, implOut).result)

\* C23: with two dispatches in flight, in every interleaving, the factory
\* of each call gets that call's ctx, the implementation method gets that
\* call's validated input, and each call settles as it would alone.
C23_NoInterference ==
  \A c \in RouterCalls :
    /\ \A i \in 1..Len(calls[c].factoryLog) :
         /\ calls[c].factoryLog[i].ctx = calls[c].ctx
         /\ calls[c].factoryLog[i].route = EnvelopeOf(c).feature.s
    /\ \A i \in 1..Len(calls[c].implLog) :
         calls[c].implLog[i].input =
           parseOrThrow(EnvelopeOf(c).input,
                        Callable(FeatureNamed(EnvelopeOf(c).feature.s).schema,
                                 EnvelopeOf(c).method.s).input).val
    /\ calls[c].pc = "done"
         => calls[c].outcome =
              AloneOutcome(DeclaredMethods, calls[c].ctx, EnvelopeOf(c), calls[c].implOut)

\* Both calls are in flight with different ctx and different envelopes; the
\* one that started first is still waiting while the other has settled.
C23_Witness ==
  /\ Cardinality(Slots) = 2
  /\ \E c, d \in RouterCalls :
       /\ calls[c].ctx # calls[d].ctx
       /\ EnvelopeOf(c) # EnvelopeOf(d)
       /\ calls[c].pc = "awaitImpl"
       /\ calls[c].factoryLog # <<>>
       /\ calls[d].pc = "done"
       /\ calls[d].implLog # <<>>
       /\ calls[d].implLog[1].input # EnvelopeOf(d).input
       /\ calls[d].outcome.st = "resolved"

\* C24: whatever Remote Proxy calls, route.call calls and router dispatches
\* have run, and however they ended, the router's mapping, every feature's
\* name and every feature's schema are what they were at construction.
C24_RegistrationUnchanged ==
  /\ registry.routes = [user |-> makeRoute(userFeature), crew |-> makeRoute(crewFeature)]
  /\ DOMAIN registry.features = {"user", "crew"}
  /\ \A n \in DOMAIN registry.features :
       /\ registry.features[n].name = n
       /\ registry.features[n].schema = FeatureNamed(n).schema

C24_Witness ==
  /\ started >= 2
  /\ \E c \in Slots :
       /\ calls[c].pc = "done"
       /\ calls[c].routeLog # <<>>
       /\ calls[c].routeOut.st = "rejected"

\* C25: route.call checks in the order method lookup, input validation,
\* factory, implementation lookup, implementation call, output validation,
\* serialization, and the first step that fails gives the error: an
\* undeclared method gives Not Found whatever the argument, and a declared
\* method with an invalid argument gives the validation error whatever the
\* implementation object holds.
C25_CheckOrder ==
  \A c \in RouteCalls :
    LET call == RouteCallOf(c)
        declared == call.method \in DOMAIN RouteFeature(c).schema
    IN /\ ~declared
            => /\ calls[c].routeOut = Rejected(MethodNotFound(call.method))
               /\ calls[c].factoryLog = <<>>
       /\ (declared /\ ~RouteAccepts(c))
            => /\ calls[c].routeOut = Rejected(ValidationError)
               /\ calls[c].factoryLog = <<>>
       /\ (declared /\ RouteAccepts(c))
            => /\ Len(calls[c].factoryLog) = 1
               /\ calls[c].implLog = <<>>
                    => calls[c].routeOut =
                         Rejected(ImplNotFound(call.route, call.method))
               /\ calls[c].implLog # <<>>
                    => /\ Len(calls[c].implLog) = 1
                       /\ calls[c].validations + calls[c].serialized > 0
                            => calls[c].implOut.st = "resolved"
                       /\ calls[c].serialized > 0 => calls[c].validations = 1

\* C26: the router validates the envelope before it looks the feature up.
\* A malformed payload rejects with the validation error even when its
\* feature names no registered route, and "Feature <name> not found" is the
\* outcome of valid envelopes only.
C26_EnvelopeBeforeLookup ==
  \A c \in RouterCalls :
    /\ ~ValidEnvelope(c)
         => /\ calls[c].pc = "done"
            /\ calls[c].outcome = Rejected(ValidationError)
    /\ (calls[c].outcome.st = "rejected" /\ calls[c].outcome.err.kind = "NotFound"
        /\ calls[c].outcome.err.msg[1] = "Feature")
         => ValidEnvelope(c)

C26_Witness ==
  \E c \in RouterCalls :
    /\ EnvelopeOf(c).feature = EnvString("nonExistent")
    /\ EnvelopeOf(c).feature.s \notin DOMAIN Routes
    /\ ~EnvelopeOf(c).method.str
    /\ calls[c].pc = "done"
    /\ calls[c].outcome = Rejected(ValidationError)

\* The implementation object the factory returned in call c has the method.
ImplBound(c) ==
  /\ calls[c].factoryLog # <<>>
  /\ Has(calls[c].factoryLog[1].impl, RouteCallOf(c).method) # "absent"

\* C27: the implementation method is invoked with the validated input, the
\* value parsing the argument against the input schema produced, not with
\* the argument as it came, and once per route.call that reaches it: at
\* every point of the call, once when the method is declared, the argument
\* valid and the method bound, and never otherwise.
C27_ImplGetsValidatedInput ==
  \A c \in RouteCalls :
    /\ Len(calls[c].implLog) = IF RouteAccepts(c) /\ ImplBound(c) THEN 1 ELSE 0
    /\ \A i \in 1..Len(calls[c].implLog) :
         calls[c].implLog[i].input =
           parseOrThrow(RouteCallOf(c).arg,
                        RouteFeature(c).schema[RouteCallOf(c).method].input).val

C27_Witness ==
  \E c \in RouteCalls :
    /\ calls[c].pc = "done"
    /\ Len(calls[c].implLog) = 1
    /\ calls[c].implLog[1].input # RouteCallOf(c).arg
    /\ calls[c].implLog[1].input = Obj([id |-> "1"])
    /\ calls[c].outcome.st = "resolved"

\* The dispatches made so far, the one in flight last.
Dispatched ==
  journal \o (IF mcall.pc = "idle" THEN <<>>
              ELSE <<[ctx |-> mcall.ctx, method |-> mcall.method,
                      input |-> mcall.input, result |-> NoResult]>>)

\* What the implementation methods of the first i dispatches, run one after
\* the other on the array of ctx x, leave in it.
RECURSIVE Replay(_, _)
Replay(i, x) ==
  IF i = 0 THEN <<>>
  ELSE LET d == Dispatched[i]
           before == Replay(i - 1, x)
           parsed == parseOrThrow(d.input, missionsFeature.schema[d.method].input)
       IN IF d.ctx = x /\ parsed.ok THEN missionsImpl(d.method, before, parsed.val).store
          ELSE before

\* C28: the factory gets the caller's ctx itself.  What every ctx holds is
\* what the implementation methods of the dispatches made with that ctx
\* have done to it, in order, and nothing else; and every dispatch returns
\* what its method returns on the ctx as the earlier dispatches left it.
C28_CtxByIdentity ==
  /\ \A x \in Ctxs : heap[x] = Replay(Len(Dispatched), x)
  /\ \A i \in 1..Len(journal) :
       LET d == journal[i]
           parsed == parseOrThrow(d.input, missionsFeature.schema[d.method].input)
       IN parsed.ok =>
            d.result =
              MissionReturn(d.method,
                            missionsImpl(d.method, Replay(i - 1, d.ctx), parsed.val).result)

\* create, create, complete(1), list, get(1) on one ctx: list returns both
\* missions in creation order and get(1) the first one, completed.
C28_Witness ==
  /\ Len(journal) = 5
  /\ \A i \in 1..5 : journal[i].ctx = "ctx2"
  /\ journal[1].method = "create" /\ journal[2].method = "create"
  /\ journal[3].method = "complete"
  /\ journal[4].method = "list"
  /\ journal[5].method = "get"
  /\ journal[4].result =
       Resolved(Text(<<"[", "{", "id", ":", "1", ",", "title", ":", "'a'", ",",
                       "completed", ":", "true", "}", ",",
                       "{", "id", ":", "2", ",", "title", ":", "'a'", ",",
                       "completed", ":", "false", "}", "]">>))
  /\ journal[5].result =
       Resolved(Text(<<"{", "id", ":", "1", ",", "title", ":", "'a'", ",",
                       "completed", ":", "true", "}">>))
  /\ heap["ctx1"] = <<>>

\* C29: when the cable fails, by rejecting or by throwing, the Remote Proxy
\* call rejects with that very failure: it never resolves, and its error is
\* the cable's, not one of a validation.
C29_CableFailurePropagates ==
  \A c \in RemoteCalls :
    calls[c].cableOut.st = "rejected"
      => /\ calls[c].outcome.st # "resolved"
         /\ Len(calls[c].cableLog) = 1
         /\ calls[c].pc = "done" => calls[c].outcome = calls[c].cableOut

C29_Witness ==
  /\ \E c \in RemoteCalls :
       /\ calls[c].cable = "mock"
       /\ calls[c].pc = "done"
       /\ calls[c].cableOut = Rejected(TransportError)
       /\ calls[c].outcome = Rejected(TransportError)

\* C30: the credential is checked when the cable is invoked, not when it is
\* constructed.  A cable is constructed whatever the token is; an invocation
\* that finds the token null rejects with the authentication error without
\* a request, and one that finds a token makes its request, whatever the
\* token was at construction and in the invocations before.
C30_CredentialPerInvocation ==
  /\ (http.cable # "none" /\ http.endpoint.def /\ http.endpoint.url # "")
       => http.cable = "built" /\ http.error = NoError
  /\ (HttpInvoked /\ http.call.token.null)
       => /\ http.outcome = Rejected(NotAuthenticated)
          /\ http.fetchLog = <<>>
  /\ (HttpInvoked /\ ~http.call.token.null /\ http.call.token.s # "")
       => /\ Len(http.fetchLog) = 1
          /\ http.fetchLog[1].headers.Authorization = <<"Bearer", http.call.token.s>>
          /\ http.outcome # Rejected(NotAuthenticated)
          /\ http.requested

\* Constructed with a null token; an invocation made after the token was
\* set has called fetch; the token was cleared and the invocation after
\* that is rejected.
C30_Witness ==
  /\ http.cable = "built"
  /\ ~http.builtWithToken
  /\ http.requested
  /\ HttpInvoked
  /\ http.call.token.null
  /\ auth.token.null
  /\ http.pc = "done"
  /\ http.outcome = Rejected(NotAuthenticated)
  /\ http.fetchLog = <<>>

\* C31: makeCable and httpCable are equivalent.  Given the same endpoint,
\* auth object, call and server response, both throw at construction (with
\* the same message) or both return a cable, and the two cables make the
\* same request and end in the same value or the same error.
C31_CablesEquivalent ==
  /\ cables.make.built = cables.http.built
  /\ cables.make.error = cables.http.error
  /\ cables.make.fetchLog = cables.http.fetchLog
  /\ cables.make.pc = cables.http.pc
  /\ cables.make.jsonReads = cables.http.jsonReads
  /\ cables.make.outcome = cables.http.outcome

\* Both cables have made a request, got a response that is not ok, and
\* ended.
C31_Witness ==
  /\ cables.make.built = "built" /\ cables.http.built = "built"
  /\ Len(cables.make.fetchLog) = 1 /\ Len(cables.http.fetchLog) = 1
  /\ cables.fetched.st = "resolved"
  /\ ~cables.fetched.resp.ok
  /\ cables.make.pc = "done" /\ cables.http.pc = "done"
  /\ cables.make.outcome.st = "rejected"
  /\ cables.http.outcome.st = "rejected"

\* The call in the slot is settled: resolved with a value and no error, or
\* rejected with an error and no value.
SettledOneWay(s) ==
  \/ s.outcome.st = "resolved" /\ s.outcome.err = NoError
  \/ s.outcome.st = "rejected" /\ s.outcome.err # NoError
                               /\ s.outcome.val = NoValue

\* C32: every call settles exactly once.  With a cable and an
\* implementation method that settle, a Remote Proxy call, a route.call or
\* a router dispatch that has started ends; while it runs it has no
\* outcome, when it has ended its outcome is a value or an error and never
\* both, and the outcome does not change until the caller has taken it.
C32_SettlesExactlyOnce ==
  /\ [](calls[1].pc = "done" => SettledOneWay(calls[1]))
  /\ [](calls[1].pc # "done" => calls[1].outcome = NoResult)
  /\ [][calls[1].pc = "done" =>
          calls'[1] = calls[1] \/ calls'[1] = IdleCall]_vars
  /\ (calls[1].entry \in {"remote", "route", "router"} /\ calls[1].pc # "done")
       ~> (calls[1].pc = "done")

\* A Remote Proxy call through the wired cable has ended after the router,
\* the route and the implementation ran, with a value.
C32_Witness ==
  /\ calls[1].pc = "done"
  /\ calls[1].entry = "remote"
  /\ calls[1].cable = "wired"
  /\ Len(calls[1].routerLog) = 1
  /\ Len(calls[1].implLog) = 1
  /\ calls[1].implOut.st = "resolved"
  /\ calls[1].outcome.st = "resolved"

====
